---- MODULE Spec2Model ----
(***************************************************************************)
(* A model of the `parallel` command executor.                             *)
(*                                                                         *)
(*   Spec      the worker pool: the shared input cursor, the worker loop   *)
(*             of ExecInputs::run, the children it owns, the event         *)
(*             channel and the output serializer.                          *)
(*   SpecArgs  argument parsing and input materialization: Args::parse,    *)
(*             parse_inputs, merge_lists, write_inputs_to_disk and         *)
(*             write_stdin_to_disk, run on bounded argument vectors.       *)
(*   SpecMain  main and parse_arguments of main.rs: the arguments, the     *)
(*             exit on a parsing error, the creation of the threads.       *)
(*   SpecTokens  tokenize and cmd_builder of main.rs on bounded templates  *)
(*             and inputs.                                                 *)
(*   SpecLive  Spec under fair scheduling of threads and processes.        *)
(***************************************************************************)
EXTENDS Integers, Sequences, FiniteSets, TLC

(***************************************************************************)
(* Bounds of the model.                                                    *)
(***************************************************************************)
MaxCores == 2
MaxInputs == 2
MaxQueue == 1

(***************************************************************************)
(* Program constants (arguments/mod.rs).                                   *)
(***************************************************************************)
INPUTS_ARE_COMMANDS == 1
SHELL_ENABLED == 4
VERBOSE_MODE == 16
DASH_EXISTS == 32

VARIABLES
  \* ---- configuration of a run (ExecInputs fields, main's locals)
  ncores,        \* number of worker threads main creates
  num_inputs,    \* number of records in the queue
  has_timeout,   \* self.timeout != 0
  dash,          \* shell::dash_exists()
  needs_shell,   \* the job ids whose input makes shell::required true
  \* ---- main thread
  threads,       \* number of worker threads spawned so far
  \* ---- shared input cursor
  counter,
  \* ---- per worker (slot)
  pc,            \* position of the worker in its loop
  job,           \* job id the worker is processing (0: none)
  flags,         \* the worker's `flags` local
  \* ---- per job
  child,         \* state of the job's child process
  todo,          \* chunks the child has still to write
  pipe,          \* chunks written by the child and not yet read
  owner,         \* worker that took the job (0: not handed out)
  jobstate,      \* "pending", "running", "finished"
  jobflags,      \* flags passed to get_command_output for the job
  \* ---- output channel and serializer
  chan,          \* events sent on output_tx and not yet received
  events,        \* per job id, the types of the events sent for it, in order
  staged,        \* serializer's staging map
  next_id,       \* serializer's next job id to flush
  flushed,       \* job ids flushed, in flush order
  stdout,        \* writes to the process's stdout
  stderr,        \* writes to the process's stderr
  handed,        \* every (worker, index, job id) handed out, in order
  \* ---- Args::parse (SpecArgs)
  arguments,     \* the argument vector, arguments[0] the program name
  apc,           \* position in Args::parse
  parsed,        \* the locals and fields the flag and command loops set
  lists,         \* parse_inputs: the finished lists
  current_inputs, \* parse_inputs: the list being built
  append_list,   \* parse_inputs: the list a `+` group collects
  zips,          \* parse_inputs: every `+` group closed so far, as
                 \* (current_inputs before, append_list, current_inputs after)
  disk,          \* bytes written to the disk buffer
  number_of_arguments,
  stdin_read,    \* whether standard input has been read
  result,        \* what Args::parse returned, once it has
  \* ---- main and parse_arguments of main.rs (SpecMain)
  mpc,           \* position of the main thread
  command,       \* main's `command`
  arg_tokens,    \* main's `arg_tokens`
  input_variables, \* main's `inputs`
  exit_code,     \* the code the process exited with (-1: still running)
  \* ---- template expansion (SpecTokens)
  tpc,           \* position in the expansion of one input
  template,      \* the text tokenize is given
  input,         \* the input cmd_builder is given
  tokens,        \* what tokenize returned
  built          \* the arguments cmd_builder passes to the command

cfgvars == <<ncores, num_inputs, has_timeout, dash, needs_shell>>

workervars == <<pc, job, flags>>

childvars == <<child, todo, pipe>>

jobvars == <<owner, jobstate, jobflags, handed>>

servars == <<staged, next_id, flushed>>

poolvars == <<cfgvars, threads, counter, workervars, childvars, jobvars,
              chan, events, servars, stdout, stderr>>

argvars == <<arguments, apc, parsed, lists, current_inputs, append_list, zips,
             disk, number_of_arguments, stdin_read, result>>

mainvars == <<mpc, command, arg_tokens, input_variables, exit_code>>

tokvars == <<tpc, template, input, tokens, built>>

vars == <<poolvars, argvars, mainvars, tokvars>>

\* Domains of the per-worker and per-job functions.
Slots == 1..MaxCores
JobDom == 0..(MaxInputs + 1)

(***************************************************************************)
(* Events of the output channel (State) and writes to the process's        *)
(* streams.                                                                *)
(***************************************************************************)
Event(t, id, s) == [type |-> t, id |-> id, stream |-> s]

StartEvent(job_id) == Event("Start", job_id, "-")

ChunkEvent(job_id, s) == Event("Chunk", job_id, s)

CompletedEvent(job_id) == Event("Completed", job_id, "-")

ErrorEventNextId(job_id) == Event("Error", job_id + 1, "-")

ErrorEventAsCompleted(job_id) == Event("Completed", job_id, "-")

\* exec_inputs.rs:62-63  State::Error(job_id, message)
ErrorEvent(job_id) == Event("Error", job_id, "-")

Terminating(e) == e.type \in {"Completed", "Error"}

Written(job_id, kind) == [job |-> job_id, kind |-> kind]

(***************************************************************************)
(* The shared cursor: main.rs:81-91 (attempt_next over the InputIterator   *)
(* in exec_inputs.rs:34).                                                  *)
(***************************************************************************)
AtEndOffByOne(old_counter) == old_counter > num_inputs

\* main.rs:84  if old_counter >= num_inputs { break }
AtEnd(old_counter) == old_counter >= num_inputs

\* main.rs:88  let job_id = old_counter + 1
JobIdOf(old_counter) == old_counter + 1

SlotNumberShared(slot) == 1

\* main.rs:63,77  for slot in 1..ncores+1 { ... let slot_number = slot; }
SlotNumber(slot) == slot

\* exec_inputs.rs:41-47  flags |= DASH_EXISTS + SHELL_ENABLED / SHELL_ENABLED
ShellFlags(f, required) ==
  IF required
  THEN IF dash THEN f \cup {DASH_EXISTS, SHELL_ENABLED}
               ELSE f \cup {SHELL_ENABLED}
  ELSE f

\* exec_inputs.rs:37-39, 67-69  verbose::processing_task / task_complete
VerboseWrite(f, out, job_id) ==
  IF VERBOSE_MODE \in f THEN Append(out, Written(job_id, "verbose")) ELSE out

(***************************************************************************)
(* Initial state: the pool as ExecInputs::run finds it.                    *)
(***************************************************************************)
StartFlags == {{}, {VERBOSE_MODE}}

InitPool ==
  /\ ncores \in 1..MaxCores
  /\ num_inputs \in 1..MaxInputs
  /\ has_timeout \in BOOLEAN
  /\ needs_shell \in SUBSET {1}
  /\ dash \in (IF needs_shell = {} THEN {FALSE} ELSE BOOLEAN)
  /\ threads = 0
  /\ counter = 0
  /\ pc = [w \in Slots |-> "idle"]
  /\ job = [w \in Slots |-> 0]
  /\ \E f \in StartFlags : flags = [w \in Slots |-> f]
  \* the startup flags and the shell are varied on a pool of one worker
  /\ ncores > 1 => needs_shell = {} /\ flags = [w \in Slots |-> {}]
  /\ child = [j \in JobDom |-> "none"]
  /\ todo = [j \in JobDom |-> <<>>]
  /\ pipe = [j \in JobDom |-> <<>>]
  /\ owner = [j \in JobDom |-> 0]
  /\ jobstate = [j \in JobDom |-> "pending"]
  /\ jobflags = [j \in JobDom |-> {}]
  /\ chan = <<>>
  /\ events = [j \in JobDom |-> <<>>]
  /\ staged = <<>>
  /\ next_id = 1
  /\ flushed = <<>>
  /\ stdout = <<>>
  /\ stderr = <<>>
  /\ handed = <<>>

(***************************************************************************)
(* main: thread creation (main.rs:62-121).                                 *)
(***************************************************************************)
MainSpawn ==
  /\ threads < ncores
  /\ threads' = threads + 1
  /\ pc' = [pc EXCEPT ![threads + 1] = "next"]
  /\ UNCHANGED <<mainvars, tokvars, argvars, cfgvars,
                 counter, job, flags, childvars, jobvars, chan,
                 events, servars, stdout, stderr>>

(***************************************************************************)
(* The worker loop: ExecInputs::run (exec_inputs.rs:34-70), with the       *)
(* cursor of main.rs:81-91.                                                *)
(***************************************************************************)
\* exec_inputs.rs:34-47: take the next input, report it, decide the shell.
AttemptNext(w) ==
  /\ pc[w] = "next"
  /\ counter' = counter + 1
  /\ IF AtEnd(counter)
     THEN /\ pc' = [pc EXCEPT ![w] = "done"]
          /\ UNCHANGED <<job, flags, owner, jobstate, stdout, handed>>
     ELSE LET job_id == JobIdOf(counter) IN
          /\ pc' = [pc EXCEPT ![w] = "spawn"]
          /\ job' = [job EXCEPT ![w] = job_id]
          /\ handed' = Append(handed,
                 [worker |-> w, index |-> counter, job_id |-> job_id])
          /\ owner' = [owner EXCEPT ![job_id] = w]
          /\ jobstate' = [jobstate EXCEPT ![job_id] = "running"]
          /\ stdout' = VerboseWrite(flags[w], stdout, job_id)
          /\ flags' = [flags EXCEPT
                 ![w] = ShellFlags(flags[w], job_id \in needs_shell)]
  /\ UNCHANGED <<mainvars, tokvars, argvars, cfgvars,
                 threads, childvars, jobflags, chan, events,
                 servars, stderr>>

\* output_tx.send(e); the model holds at most MaxQueue unreceived events.
Send(e) ==
  /\ Len(chan) < MaxQueue
  /\ chan' = Append(chan, e)
  /\ events' = [events EXCEPT ![e.id] = Append(@, e.type)]

\* exec_inputs.rs:67-70: report the task and go round the loop.
EndIteration(w) ==
  /\ stdout' = VerboseWrite(flags[w], stdout, job[w])
  /\ jobstate' = [jobstate EXCEPT ![job[w]] = "finished"]
  /\ job' = [job EXCEPT ![w] = 0]
  /\ pc' = [pc EXCEPT ![w] = "next"]

\* What a child writes: nothing, or a chunk on each of its two streams.
ChildOutputs == {<<>>, <<"out", "err">>}

\* exec_inputs.rs:49-51,55  get_command_output returns Ok(child); without a
\* timeout pipe_output is called at once and sends Start.
SpawnOk(w) ==
  /\ pc[w] = "spawn"
  /\ \E o \in ChildOutputs : todo' = [todo EXCEPT ![job[w]] = o]
  /\ child' = [child EXCEPT ![job[w]] = "running"]
  /\ jobflags' = [jobflags EXCEPT ![job[w]] = flags[w]]
  /\ IF has_timeout
     THEN /\ pc' = [pc EXCEPT ![w] = "wait_timeout"]
          /\ UNCHANGED <<chan, events>>
     ELSE /\ pc' = [pc EXCEPT ![w] = "drain"]
          /\ Send(StartEvent(job[w]))
  /\ UNCHANGED <<mainvars, tokvars, argvars, cfgvars,
                 threads, counter, job, flags, pipe, owner,
                 jobstate, handed, servars, stdout, stderr>>

\* exec_inputs.rs:59-69  get_command_output returns Err(why).
SpawnErr(w) ==
  /\ pc[w] = "spawn"
  /\ jobflags' = [jobflags EXCEPT ![job[w]] = flags[w]]
  /\ stderr' = Append(stderr, Written(job[w], "direct"))
  /\ Send(ErrorEvent(job[w]))
  /\ EndIteration(w)
  /\ UNCHANGED <<mainvars, tokvars, argvars, cfgvars,
                 threads, counter, flags, childvars, owner, handed,
                 servars>>

\* exec_inputs.rs:51,55  wait_timeout returns Some(status): the child exited
\* within the timeout; pipe_output is called and sends Start.
WaitTimeoutSome(w) ==
  /\ pc[w] = "wait_timeout"
  /\ child[job[w]] = "exited"
  /\ child' = [child EXCEPT ![job[w]] = "reaped"]
  /\ pc' = [pc EXCEPT ![w] = "drain"]
  /\ Send(StartEvent(job[w]))
  /\ UNCHANGED <<mainvars, tokvars, argvars, cfgvars,
                 threads, counter, job, flags, todo, pipe, jobvars,
                 servars, stdout, stderr>>

wait_timeout_is_none_exited(c) == c \in {"running", "exited"}

wait_timeout_is_none_never(c) == FALSE

\* exec_inputs.rs:51  child.wait_timeout(self.timeout).unwrap().is_none():
\* the timeout expired and the child had not exited.
wait_timeout_is_none(c) == c = "running"

DrainsAfterKillNever == FALSE

\* exec_inputs.rs:53  pipe_output is called after child.kill() too.
DrainsAfterKill == TRUE

\* exec_inputs.rs:51-53  wait_timeout returns None: the timeout expired with
\* the child running; the child is killed, pipe_output is called and sends
\* Start.
WaitTimeoutNone(w) ==
  /\ pc[w] = "wait_timeout"
  /\ wait_timeout_is_none(child[job[w]])
  /\ child' = [child EXCEPT ![job[w]] = "killed"]
  /\ todo' = [todo EXCEPT ![job[w]] = <<>>]
  /\ IF DrainsAfterKill
     THEN /\ pc' = [pc EXCEPT ![w] = "drain"]
          /\ Send(StartEvent(job[w]))
          /\ UNCHANGED <<job, jobstate, stdout>>
     ELSE /\ EndIteration(w)
          /\ UNCHANGED <<chan, events>>
  /\ UNCHANGED <<mainvars, tokvars, argvars, cfgvars,
                 threads, counter, flags, pipe, owner, jobflags,
                 handed, servars, stderr>>

(***************************************************************************)
(* The child process: it writes its output into its pipes, blocks while a  *)
(* pipe is full (a pipe holds one chunk) and exits once everything is      *)
(* written.                                                                *)
(***************************************************************************)
ChildWrite(j) ==
  /\ child[j] = "running"
  /\ todo[j] # <<>>
  /\ pipe[j] = <<>>
  /\ pipe' = [pipe EXCEPT ![j] = Append(pipe[j], Head(todo[j]))]
  /\ todo' = [todo EXCEPT ![j] = Tail(todo[j])]
  /\ UNCHANGED <<mainvars, tokvars, argvars, cfgvars,
                 threads, counter, workervars, child, jobvars, chan,
                 events, servars, stdout, stderr>>

ChildExit(j) ==
  /\ child[j] = "running"
  /\ todo[j] = <<>>
  /\ child' = [child EXCEPT ![j] = "exited"]
  /\ UNCHANGED <<mainvars, tokvars, argvars, cfgvars,
                 threads, counter, workervars, todo, pipe, jobvars,
                 chan, events, servars, stdout, stderr>>

(***************************************************************************)
(* pipe_output (exec_inputs.rs:53,55): after Start, the chunks read from   *)
(* the child's pipes, then Completed once the pipes are at end of file.    *)
(***************************************************************************)
PipeChunk(w) ==
  /\ pc[w] = "drain"
  /\ pipe[job[w]] # <<>>
  /\ Send(ChunkEvent(job[w], Head(pipe[job[w]])))
  /\ pipe' = [pipe EXCEPT ![job[w]] = Tail(pipe[job[w]])]
  /\ UNCHANGED <<mainvars, tokvars, argvars, cfgvars,
                 threads, counter, workervars, child, todo, jobvars,
                 servars, stdout, stderr>>

WaitsAfterPipeNever(killed) == FALSE

\* exec_inputs.rs:52-57: child.wait() follows pipe_output except after a kill.
WaitsAfterPipe(killed) == ~killed

PipeEOF(w) ==
  /\ pc[w] = "drain"
  /\ pipe[job[w]] = <<>>
  /\ child[job[w]] \in {"exited", "killed", "reaped"}
  /\ Send(CompletedEvent(job[w]))
  /\ IF WaitsAfterPipe(child[job[w]] = "killed")
     THEN /\ pc' = [pc EXCEPT ![w] = "wait"]
          /\ UNCHANGED <<job, jobstate, stdout>>
     ELSE EndIteration(w)
  /\ UNCHANGED <<mainvars, tokvars, argvars, cfgvars,
                 threads, counter, flags, childvars, owner,
                 jobflags, handed, servars, stderr>>

\* exec_inputs.rs:56-69  let _ = child.wait();
Wait(w) ==
  /\ pc[w] = "wait"
  /\ child[job[w]] \in {"exited", "reaped"}
  /\ child' = [child EXCEPT ![job[w]] = "reaped"]
  /\ EndIteration(w)
  /\ UNCHANGED <<mainvars, tokvars, argvars, cfgvars,
                 threads, counter, flags, todo, pipe, owner,
                 jobflags, handed, chan, events, servars, stderr>>

(***************************************************************************)
(* The output serializer: one consumer of the channel, staging each job's  *)
(* output and flushing the blocks in job-id order.                         *)
(***************************************************************************)
EmptyEntry == [out |-> 0, err |-> 0, done |-> FALSE]

Entry(stg, id) == IF id \in DOMAIN stg THEN stg[id] ELSE EmptyEntry

Stage(stg, e) ==
  LET old == Entry(stg, e.id)
      new == CASE e.type = "Start" -> old
               [] e.type = "Chunk" /\ e.stream = "out" ->
                    [old EXCEPT !.out = @ + 1]
               [] e.type = "Chunk" /\ e.stream = "err" ->
                    [old EXCEPT !.err = @ + 1]
               [] e.type = "Completed" -> [old EXCEPT !.done = TRUE]
               [] e.type = "Error" -> [out |-> 0, err |-> 1, done |-> TRUE]
  IN [i \in DOMAIN stg \cup {e.id} |-> IF i = e.id THEN new ELSE stg[i]]

Block(id, n) == [k \in 1..n |-> Written(id, "block")]

RECURSIVE Flush(_, _, _, _, _)
Flush(stg, nid, so, se, fl) ==
  IF nid \in DOMAIN stg /\ stg[nid].done
  THEN Flush([i \in DOMAIN stg \ {nid} |-> stg[i]], nid + 1,
             so \o Block(nid, stg[nid].out), se \o Block(nid, stg[nid].err),
             Append(fl, nid))
  ELSE [staged |-> stg, next_id |-> nid, stdout |-> so, stderr |-> se,
        flushed |-> fl]

Receive ==
  /\ chan # <<>>
  /\ chan' = Tail(chan)
  /\ LET r == Flush(Stage(staged, Head(chan)), next_id, stdout, stderr,
                    flushed)
     IN /\ staged' = r.staged
        /\ next_id' = r.next_id
        /\ stdout' = r.stdout
        /\ stderr' = r.stderr
        /\ flushed' = r.flushed
  /\ UNCHANGED <<mainvars, tokvars, argvars, cfgvars,
                 threads, counter, workervars, childvars, jobvars,
                 events>>

Workers == 1..ncores

NextPool ==
  \/ MainSpawn
  \/ \E w \in Workers : AttemptNext(w)
  \/ \E w \in Workers : SpawnOk(w)
  \/ \E w \in Workers : SpawnErr(w)
  \/ \E w \in Workers : WaitTimeoutSome(w)
  \/ \E w \in Workers : WaitTimeoutNone(w)
  \/ \E j \in JobDom : ChildWrite(j)
  \/ \E j \in JobDom : ChildExit(j)
  \/ \E w \in Workers : PipeChunk(w)
  \/ \E w \in Workers : PipeEOF(w)
  \/ \E w \in Workers : Wait(w)
  \/ Receive

\* Args::parse is not running.
ArgsIdle ==
  /\ arguments = <<>>
  /\ apc = "off"
  /\ parsed = <<>>
  /\ lists = <<>>
  /\ current_inputs = <<>>
  /\ append_list = <<>>
  /\ zips = <<>>
  /\ disk = <<>>
  /\ number_of_arguments = 0
  /\ stdin_read = FALSE
  /\ result = "running"

\* main.rs is not running.
MainIdle ==
  /\ mpc = "off"
  /\ command = <<>>
  /\ arg_tokens = <<>>
  /\ input_variables = <<>>
  /\ exit_code = -1

\* No template is being expanded.
TokensIdle ==
  /\ tpc = "off"
  /\ template = <<>>
  /\ input = <<>>
  /\ tokens = <<>>
  /\ built = <<>>

Init == InitPool /\ ArgsIdle /\ MainIdle /\ TokensIdle

Next == NextPool

Spec == Init /\ [][Next]_vars

(***************************************************************************)
(* Properties of the pool.                                                 *)
(***************************************************************************)
\* Every worker main creates has left its loop and the channel is drained.
RunComplete ==
  /\ threads = ncores
  /\ \A w \in Workers : pc[w] = "done"
  /\ chan = <<>>

\* The job ids of the blocks of a stream, in write order.
BlockJobs(stream) ==
  LET blocks == SelectSeq(stream, LAMBDA x : x.kind = "block")
  IN [i \in 1..Len(blocks) |-> blocks[i].job]

NonDecreasing(q) == \A i, k \in 1..Len(q) : i < k => q[i] <= q[k]

\* C1: the serializer writes the jobs' blocks to stdout and stderr in job-id
\* order 1, 2, ..., under every interleaving: block k is written only after
\* blocks 1..k-1, the chunks of two jobs are never interleaved on a stream,
\* and when the run is complete the blocks of all of 1..N have been written.
C1_BlocksInJobOrder ==
  /\ \A i \in 1..Len(flushed) : flushed[i] = i
  /\ Len(flushed) <= num_inputs
  /\ NonDecreasing(BlockJobs(stdout))
  /\ NonDecreasing(BlockJobs(stderr))
  /\ \A i \in 1..Len(BlockJobs(stdout)) :
        BlockJobs(stdout)[i] \in 1..Len(flushed)
  /\ \A i \in 1..Len(BlockJobs(stderr)) :
        BlockJobs(stderr)[i] \in 1..Len(flushed)
  /\ RunComplete => Len(flushed) = num_inputs

\* Job 2 has completed with output while job 1 has not: its block is staged
\* and held back.
C1_Witness ==
  /\ next_id = 1
  /\ 2 \in DOMAIN staged
  /\ staged[2].done
  /\ staged[2].out > 0
  /\ jobstate[1] = "running"

TerminatingAt(j) == {i \in 1..Len(events[j]) : events[j][i] \in {"Completed", "Error"}}

\* C2: in the stream of events the workers send, a job id has at most one
\* terminating event (Completed or Error), no event follows it, only the ids
\* 1..N have events, and once every worker has left its loop each id of 1..N
\* has exactly one, whether its child ran, failed to spawn or was killed.
C2_OneTerminatingEvent ==
  /\ \A j \in JobDom :
        /\ Cardinality(TerminatingAt(j)) <= 1
        /\ \A i \in TerminatingAt(j) : i = Len(events[j])
        /\ j \notin 1..num_inputs => events[j] = <<>>
  /\ (threads = ncores /\ \A w \in Workers : pc[w] = "done") =>
        \A j \in 1..num_inputs : Cardinality(TerminatingAt(j)) = 1

\* A complete run in which one job failed to spawn and another was killed on
\* timeout and still completed.
C2_Witness ==
  /\ RunComplete
  /\ \E j, k \in 1..num_inputs :
        /\ events[j] = <<"Error">>
        /\ child[k] = "killed"
        /\ events[k][Len(events[k])] = "Completed"

\* C3: the records are handed out one by one in input order: the i-th
\* hand-out is of index i-1 with job id i, to one worker; no index >= N is
\* ever handed out; when every worker has left its loop all of 1..N have been.
C3_DenseJobIds ==
  /\ \A i \in 1..Len(handed) :
        /\ handed[i].index = i - 1
        /\ handed[i].job_id = i
        /\ handed[i].index < num_inputs
        /\ handed[i].worker \in Workers
        /\ owner[i] = handed[i].worker
  /\ \A j \in JobDom : j > Len(handed) => owner[j] = 0
  /\ (threads = ncores /\ \A w \in Workers : pc[w] = "done") =>
        Len(handed) = num_inputs

\* Two workers raced: the second thread took record 0 and the first record 1,
\* and both have seen the end of the input.
C3_Witness ==
  /\ Len(handed) = 2
  /\ handed[1].worker = 2
  /\ handed[2].worker = 1
  /\ \A w \in Workers : pc[w] = "done"

Started == {j \in JobDom : jobstate[j] # "pending"}

Running == {j \in JobDom : jobstate[j] = "running"}

\* C4: every job runs with a slot id in 1..ncores, and two jobs that are
\* running at the same time never have the same slot id (so a slot id is
\* taken again only once the job that had it has finished).
C4_SlotsNotShared ==
  /\ \A j \in Started : SlotNumber(owner[j]) \in 1..ncores
  /\ \A j, k \in Running : j # k => SlotNumber(owner[j]) # SlotNumber(owner[k])

\* Two jobs are running at once, their children alive.
C4_Witness ==
  /\ Cardinality(Running) = 2
  /\ \A j \in Running : child[j] = "running"

\* A child that was spawned and has been neither waited on nor killed.
Live(j) == child[j] \in {"running", "exited"}

\* C5: a worker owns at most one live child, at most ncores children are
\* live, and a worker that is about to take its next input (or has left its
\* loop) owns no live child.
C5_OneLiveChildPerWorker ==
  /\ \A w \in Workers : Cardinality({j \in JobDom : owner[j] = w /\ Live(j)}) <= 1
  /\ Cardinality({j \in JobDom : Live(j)}) <= ncores
  /\ \A w \in Workers :
        pc[w] \in {"next", "done"} => \A j \in JobDom : owner[j] = w => ~Live(j)

\* A worker is back at the top of its loop after its child was waited on,
\* while the other worker's child is alive.
C5_Witness ==
  \E w \in Workers, j, k \in JobDom :
     /\ pc[w] = "next"
     /\ owner[j] = w
     /\ child[j] = "reaped"
     /\ owner[k] # w
     /\ Live(k)

(***************************************************************************)
(* Argument parsing and input materialization (arguments/mod.rs).          *)
(* A string is a sequence of one-character strings.                        *)
(***************************************************************************)
PIPE_IS_ENABLED == 2
QUIET_MODE == 8
DRY_RUN == 64

\* arguments/mod.rs:55  num_cpus::get()
NumCpus == 4

SepInputs == <<":", ":", ":">>
SepInputsAppend == <<":", ":", ":", "+">>
SepFiles == <<":", ":", ":", ":">>
SepFilesAppend == <<":", ":", ":", ":", "+">>

Space == <<" ">>
Newline == <<"\n">>

DigitChars == <<"0", "1", "2", "3", "4", "5", "6", "7", "8", "9">>

IsDigit(c) == \E i \in 1..10 : DigitChars[i] = c

DigitValue(c) == (CHOOSE i \in 1..10 : DigitChars[i] = c) - 1

RECURSIVE DecimalValue(_)
DecimalValue(s) ==
  IF s = <<>> THEN 0
  ELSE DecimalValue(SubSeq(s, 1, Len(s) - 1)) * 10 + DigitValue(s[Len(s)])

AllDigits(s) == s # <<>> /\ \A i \in 1..Len(s) : IsDigit(s[i])

\* str::parse::<usize>(): an optional '+' and at least one digit; -1 for Err.
ParseUsize(s) ==
  LET body == IF s # <<>> /\ s[1] = "+" THEN Tail(s) ELSE s
  IN IF AllDigits(body) THEN DecimalValue(body) ELSE -1

\* str::parse::<f64>() * 1000 as u64, for the whole numbers of seconds the
\* model writes; -1 for Err.
ParseSeconds(s) == IF AllDigits(s) THEN DecimalValue(s) * 1000 ELSE -1

Max(a, b) == IF a > b THEN a ELSE b

\* jobs::parse: a number of jobs, clamped to at least 1; -1 for Err.
JobsParse(s) == IF AllDigits(s) THEN Max(1, DecimalValue(s)) ELSE -1

\* arguments[i] and arguments.get(i), i counted from 0 as in the source.
ArgAt(i) == arguments[i + 1]

HasArg(i) == i < Len(arguments)

Res(kind, err, at) == [kind |-> kind, err |-> err, at |-> at]

Running0 == Res("running", "-", 0)

\* An Err(ParseErr): the variant and the index it carries (0: it carries none).
Failed(err, at) == Res("err", err, at)

\* arguments/mod.rs:53-62,70-82  Args::new and the locals of Args::parse.
ParsedInit(mode, index, f) ==
  [flags |-> f, ncores |-> NumCpus, max_args |-> 0, delay |-> 0,
   timeout |-> 0, quote |-> "None", comm |-> <<>>, mode |-> mode,
   index |-> index, brk |-> FALSE, res |-> Running0]

\* arguments/mod.rs:477-486  parse_jobs
parse_jobs(st, argument) ==
  IF Len(argument) > 2
  THEN LET n == JobsParse(SubSeq(argument, 3, Len(argument)))
       IN IF n < 0 THEN [st EXCEPT !.res = Failed("JobsNaN", 0)]
                   ELSE [st EXCEPT !.ncores = n]
  ELSE LET index == st.index + 1 IN
       IF ~HasArg(st.index)
       THEN [st EXCEPT !.index = index, !.res = Failed("JobsNoValue", 0)]
       ELSE LET n == JobsParse(ArgAt(st.index))
            IN IF n < 0
               THEN [st EXCEPT !.index = index,
                               !.res = Failed("JobsNaN", 0)]
               ELSE [st EXCEPT !.index = index, !.ncores = n]

\* arguments/mod.rs:454-462  parse_max_args
parse_max_args(st, argument) ==
  IF Len(argument) > 2
  THEN LET n == ParseUsize(SubSeq(argument, 3, Len(argument)))
       IN IF n < 0 THEN [st EXCEPT !.res = Failed("MaxArgsNaN", st.index)]
                   ELSE [st EXCEPT !.max_args = n]
  ELSE LET index == st.index + 1 IN
       IF ~HasArg(st.index)
       THEN [st EXCEPT !.index = index,
                       !.res = Failed("MaxArgsNoValue", 0)]
       ELSE LET n == ParseUsize(ArgAt(st.index))
            IN IF n < 0
               THEN [st EXCEPT !.index = index,
                               !.res = Failed("MaxArgsNaN", index)]
               ELSE [st EXCEPT !.index = index, !.max_args = n]

\* arguments/mod.rs:99-113  the characters of a short flag group.
RECURSIVE ShortFlags(_, _)
ShortFlags(st, chars) ==
  IF chars = <<>> \/ st.res.kind # "running" THEN st
  ELSE LET c == Head(chars) IN
       ShortFlags(
         CASE c = "h" -> [st EXCEPT !.res = Res("exit", "-", 0)]
           [] c = "p" -> [st EXCEPT !.flags = @ \cup {PIPE_IS_ENABLED}]
           [] c = "q" -> [st EXCEPT !.quote = "Basic"]
           [] c = "s" -> [st EXCEPT !.flags = @ \cup {QUIET_MODE}]
           [] c = "v" -> [st EXCEPT !.flags = @ \cup {VERBOSE_MODE}]
           [] OTHER -> [st EXCEPT
                          !.res = Failed("InvalidArgument", st.index - 1)],
         Tail(chars))

\* arguments/mod.rs:116-166  the long flags.
LongFlag(st, name) ==
  CASE name = <<"d", "e", "l", "a", "y">> ->
         IF ~HasArg(st.index)
         THEN [st EXCEPT !.res = Failed("DelayNoValue", 0)]
         ELSE LET ms == ParseSeconds(ArgAt(st.index))
              IN IF ms < 0
                 THEN [st EXCEPT !.res = Failed("DelayNaN", st.index)]
                 ELSE [st EXCEPT !.delay = ms, !.index = @ + 1]
    [] name = <<"d", "r", "y", "-", "r", "u", "n">> -> [st EXCEPT !.flags = @ \cup {DRY_RUN}]
    [] name \in {<<"h", "e", "l", "p">>, <<"n", "u", "m", "-", "c", "p", "u", "-", "c", "o", "r", "e", "s">>, <<"v", "e", "r", "s", "i", "o", "n">>} ->
         [st EXCEPT !.res = Res("exit", "-", 0)]
    [] name = <<"j", "o", "b", "s">> ->
         IF ~HasArg(st.index)
         THEN [st EXCEPT !.res = Failed("JobsNoValue", 0)]
         ELSE LET n == JobsParse(ArgAt(st.index))
              IN IF n < 0
                 THEN [st EXCEPT !.res = Failed("JobsNaN", 0)]
                 ELSE [st EXCEPT !.ncores = n, !.index = @ + 1]
    [] name = <<"m", "a", "x", "-", "a", "r", "g", "s">> ->
         IF ~HasArg(st.index)
         THEN [st EXCEPT !.res = Failed("MaxArgsNoValue", 0)]
         ELSE LET n == ParseUsize(ArgAt(st.index))
              IN IF n < 0
                 THEN [st EXCEPT !.res = Failed("MaxArgsNaN", st.index)]
                 ELSE [st EXCEPT !.max_args = n, !.index = @ + 1]
    [] name = <<"p", "i", "p", "e">> -> [st EXCEPT !.flags = @ \cup {PIPE_IS_ENABLED}]
    [] name \in {<<"q", "u", "i", "e", "t">>, <<"s", "i", "l", "e", "n", "t">>} ->
         [st EXCEPT !.flags = @ \cup {QUIET_MODE}]
    [] name = <<"q", "u", "o", "t", "e">> -> [st EXCEPT !.quote = "Basic"]
    [] name = <<"s", "h", "e", "l", "l", "q", "u", "o", "t", "e">> -> [st EXCEPT !.quote = "Shell"]
    [] name = <<"t", "i", "m", "e", "o", "u", "t">> ->
         IF ~HasArg(st.index)
         THEN [st EXCEPT !.res = Failed("DelayNoValue", 0)]
         ELSE LET ms == ParseSeconds(ArgAt(st.index))
              IN IF ms < 0
                 THEN [st EXCEPT !.res = Failed("DelayNaN", st.index)]
                 ELSE [st EXCEPT !.timeout = ms, !.index = @ + 1]
    [] name = <<"v", "e", "r", "b", "o", "s", "e">> -> [st EXCEPT !.flags = @ \cup {VERBOSE_MODE}]
    [] OTHER -> [st EXCEPT !.res = Failed("InvalidArgument", st.index - 1)]

\* arguments/mod.rs:85-186  one turn of the flag loop; s0 is the state with
\* the index already past the argument.
FlagStep(s0, argument) ==
  IF argument = <<>> THEN [s0 EXCEPT !.res = Res("panic", "unwrap", s0.index - 1)]
  ELSE IF argument[1] = "-"
  THEN IF Len(argument) < 2
       THEN [s0 EXCEPT !.res = Failed("InvalidArgument", s0.index - 1)]
       ELSE LET character == argument[2] IN
            CASE character = "j" -> parse_jobs(s0, argument)
              [] character = "n" -> parse_max_args(s0, argument)
              [] character = "-" ->
                   LongFlag(s0, SubSeq(argument, 3, Len(argument)))
              [] OTHER -> ShortFlags(s0, Tail(argument))
  ELSE CASE argument = SepInputs ->
              [s0 EXCEPT !.mode = "Inputs", !.brk = TRUE,
                         !.flags = @ \cup {INPUTS_ARE_COMMANDS}]
         [] argument = SepFiles ->
              [s0 EXCEPT !.mode = "Files", !.brk = TRUE,
                         !.flags = @ \cup {INPUTS_ARE_COMMANDS}]
         [] OTHER ->
              [s0 EXCEPT !.comm = @ \o argument, !.mode = "Command",
                         !.brk = TRUE]

RECURSIVE FlagLoop(_)
FlagLoop(st) ==
  IF st.res.kind # "running" \/ st.brk \/ ~HasArg(st.index) THEN st
  ELSE FlagLoop(FlagStep([st EXCEPT !.index = @ + 1], ArgAt(st.index)))

PushCommandUnspaced(comm, argument) == comm \o argument

\* arguments/mod.rs:199-200  comm.push(' '); comm.push_str(argument);
PushCommand(comm, argument) == comm \o Space \o argument

SeparatorModeKept(argument) == "Command"

\* arguments/mod.rs:192-196  the mode a separator after the command sets.
SeparatorMode(argument) ==
  IF argument \in {SepInputs, SepInputsAppend} THEN "Inputs" ELSE "Files"

\* arguments/mod.rs:189-206  the rest of the command, up to a separator.
RECURSIVE CommandLoop(_)
CommandLoop(st) ==
  IF ~HasArg(st.index) THEN st
  ELSE LET argument == ArgAt(st.index)
           s0 == [st EXCEPT !.index = @ + 1]
       IN IF argument \in {SepInputs, SepInputsAppend, SepFiles,
                           SepFilesAppend}
          THEN [s0 EXCEPT !.mode = SeparatorMode(argument)]
          ELSE CommandLoop([s0 EXCEPT !.comm = PushCommand(@, argument)])

\* arguments/mod.rs:76-206  the initial mode, the flags and the command.
ParseCommandLine ==
  LET first == ArgAt(1)
      st0 == CASE first = SepInputs ->
                    ParsedInit("Inputs", 2, {INPUTS_ARE_COMMANDS})
               [] first = SepFiles ->
                    ParsedInit("Files", 2, {INPUTS_ARE_COMMANDS})
               [] OTHER -> ParsedInit("Arguments", 1, {})
      st1 == IF st0.mode = "Arguments" THEN FlagLoop(st0) ELSE st0
  IN IF st1.res.kind = "running" /\ st1.mode = "Command"
     THEN CommandLoop(st1) ELSE st1

\* The files `::::` can name: <<"d">> cannot be opened, <<"b">> is empty,
\* <<"a">> holds three lines and every other file one.
FileOpens(path) == path # <<"d">>

FileLines(path) ==
  CASE path = <<"a">> -> << <<"a", "1">>, <<"a", "2">>, <<"a", "3">> >>
    [] path = <<"b">> -> <<>>
    [] OTHER -> << path \o <<"1">> >>

\* What standard input can hold.
StdinInputs ==
  { <<>>, << <<"x">> >>, << <<"x">>, <<"y">>, <<"z">> >> }

RECURSIVE Concat(_)
Concat(ss) == IF ss = <<>> THEN <<>> ELSE Head(ss) \o Concat(Tail(ss))

\* arguments/mod.rs:466-474  merge_lists; the append list is always drained.
merge_lists(original, append) ==
  LET truncated == IF Len(original) > Len(append)
                   THEN SubSeq(original, 1, Len(append)) ELSE original
  IN [i \in 1..Len(truncated) |-> truncated[i] \o Space \o append[i]]

AppendMode(mode) == mode \in {"InputsAppend", "FilesAppend"}

\* arguments/mod.rs:395-414  switch_mode!, with and without `append`.
switch_mode(mode, append) ==
  LET merged == IF AppendMode(parsed.mode)
                THEN merge_lists(current_inputs, append_list)
                ELSE current_inputs
  IN /\ zips' = IF AppendMode(parsed.mode)
                THEN Append(zips, [base |-> current_inputs,
                                   appended |-> append_list,
                                   result |-> merged])
                ELSE zips
     /\ append_list' = IF AppendMode(parsed.mode) THEN <<>> ELSE append_list
     /\ parsed' = [parsed EXCEPT !.mode = mode, !.index = @ + 1]
     /\ IF ~append /\ merged # <<>>
        THEN lists' = Append(lists, merged) /\ current_inputs' = <<>>
        ELSE lists' = lists /\ current_inputs' = merged
     /\ UNCHANGED <<apc, result>>

\* arguments/mod.rs:429-435,489-496  an input argument, by mode.
PushInput(argument) ==
  /\ UNCHANGED <<lists, zips>>
  /\ CASE parsed.mode = "Inputs" ->
            /\ current_inputs' = Append(current_inputs, argument)
            /\ parsed' = [parsed EXCEPT !.index = @ + 1]
            /\ UNCHANGED <<append_list, apc, result>>
       [] parsed.mode = "InputsAppend" ->
            /\ append_list' = Append(append_list, argument)
            /\ parsed' = [parsed EXCEPT !.index = @ + 1]
            /\ UNCHANGED <<current_inputs, apc, result>>
       [] parsed.mode = "Files" /\ FileOpens(argument) ->
            /\ current_inputs' = current_inputs \o FileLines(argument)
            /\ parsed' = [parsed EXCEPT !.index = @ + 1]
            /\ UNCHANGED <<append_list, apc, result>>
       [] parsed.mode = "FilesAppend" /\ FileOpens(argument) ->
            /\ append_list' = append_list \o FileLines(argument)
            /\ parsed' = [parsed EXCEPT !.index = @ + 1]
            /\ UNCHANGED <<current_inputs, apc, result>>
       [] parsed.mode \in {"Files", "FilesAppend"} /\ ~FileOpens(argument) ->
            /\ apc' = "done"
            /\ result' = Failed("FileOpen", 0)
            /\ parsed' = [parsed EXCEPT !.index = @ + 1]
            /\ UNCHANGED <<current_inputs, append_list>>
       [] OTHER ->
            /\ apc' = "done"
            /\ result' = Res("panic", "unreachable", parsed.index)
            /\ parsed' = [parsed EXCEPT !.index = @ + 1]
            /\ UNCHANGED <<current_inputs, append_list>>

\* arguments/mod.rs:417-437  one turn of parse_inputs' loop.
ParseInputsStep ==
  /\ apc = "inputs"
  /\ HasArg(parsed.index)
  /\ LET argument == ArgAt(parsed.index) IN
     CASE argument = SepInputs -> switch_mode("Inputs", FALSE)
       [] argument = SepInputsAppend -> switch_mode("InputsAppend", TRUE)
       [] argument = SepFiles -> switch_mode("Files", FALSE)
       [] argument = SepFilesAppend -> switch_mode("FilesAppend", TRUE)
       [] OTHER -> PushInput(argument)
  /\ UNCHANGED <<mainvars, tokvars, poolvars, arguments, disk, number_of_arguments, stdin_read>>

\* arguments/mod.rs:439-450  after the loop: the guarded merge and the push.
ParseInputsEnd ==
  /\ apc = "inputs"
  /\ ~HasArg(parsed.index)
  /\ LET merges == append_list # <<>> /\ AppendMode(parsed.mode)
         merged == IF merges THEN merge_lists(current_inputs, append_list)
                   ELSE current_inputs
     IN /\ current_inputs' = merged
        /\ append_list' = IF merges THEN <<>> ELSE append_list
        /\ zips' = IF AppendMode(parsed.mode)
                   THEN Append(zips, [base |-> current_inputs,
                                      appended |-> append_list,
                                      result |-> merged])
                   ELSE zips
        /\ lists' = IF merged # <<>> THEN Append(lists, merged) ELSE lists
  /\ apc' = "write"
  /\ UNCHANGED <<mainvars, tokvars, poolvars, arguments, parsed, disk, number_of_arguments,
                 stdin_read, result>>

\* crate permutate, Permutator::new / next / next_with_buffer: every choice
\* of one element per list, the last list's index advancing first.
RECURSIVE PermutatorOutputs(_)
PermutatorOutputs(ls) ==
  IF ls = <<>> THEN << <<>> >>
  ELSE LET rest == PermutatorOutputs(Tail(ls))
       IN Concat([i \in 1..Len(ls[1]) |->
                    [j \in 1..Len(rest) |-> <<ls[1][i]>> \o rest[j]]])

WritePermutationUnspaced(permutation_buffer) == Concat(permutation_buffer)

\* arguments/mod.rs:297-303  the first element, then ' ' and each further one.
WritePermutation(permutation_buffer) ==
  Head(permutation_buffer)
    \o Concat([i \in 1..(Len(permutation_buffer) - 1) |->
                 Space \o permutation_buffer[i + 1]])

Written0(bytes, n) == [disk |-> bytes, n |-> n]

\* arguments/mod.rs:309-322  max_args < 2: one line per permutation.
PermutationLines(perms) ==
  Written0(Concat([i \in 1..Len(perms) |->
                     WritePermutation(perms[i]) \o Newline]),
           Len(perms))

FirstMaxArgsIndexFull(max_args) == max_args

\* arguments/mod.rs:324  let mut max_args_index = max_args - 1;
FirstMaxArgsIndex(max_args) == max_args - 1

\* arguments/mod.rs:325-362  the batching loop over the later permutations.
RECURSIVE BatchPermutations(_, _, _)
BatchPermutations(perms, max_args, st) ==
  IF perms = <<>> THEN st
  ELSE LET bytes == WritePermutation(Head(perms)) IN
       BatchPermutations(Tail(perms), max_args,
         IF st.max_args_index = max_args
         THEN [disk |-> st.disk \o bytes, n |-> st.n + 1,
               max_args_index |-> st.max_args_index - 1]
         ELSE IF st.max_args_index = 1
         THEN [disk |-> st.disk \o Space \o bytes \o Newline, n |-> st.n,
               max_args_index |-> max_args]
         ELSE [disk |-> st.disk \o Space \o bytes, n |-> st.n,
               max_args_index |-> st.max_args_index - 1])

\* slice::chunks(max_args)
RECURSIVE Chunks(_, _)
Chunks(inputs, size) ==
  IF inputs = <<>> THEN <<>>
  ELSE IF Len(inputs) <= size THEN <<inputs>>
  ELSE <<SubSeq(inputs, 1, size)>>
         \o Chunks(SubSeq(inputs, size + 1, Len(inputs)), size)

WriteChunkUnspaced(chunk) == Concat(chunk) \o Newline

\* arguments/mod.rs:373-385  each element but the last with ' ', the last
\* with '\n'.
WriteChunk(chunk) ==
  LET max_index == Len(chunk) - 1
  IN Concat([index \in 1..max_index |-> chunk[index] \o Space])
       \o chunk[max_index + 1] \o Newline

\* arguments/mod.rs:278-389  write_inputs_to_disk
write_inputs_to_disk(ls, inputs, max_args) ==
  IF Len(ls) > 1
  THEN LET perms == PermutatorOutputs(ls) IN
       IF max_args < 2 THEN PermutationLines(perms)
       ELSE LET st == BatchPermutations(Tail(perms), max_args,
                        [disk |-> WritePermutation(Head(perms)), n |-> 1,
                         max_args_index |-> FirstMaxArgsIndex(max_args)])
            IN Written0(st.disk, st.n)
  ELSE IF max_args < 2
  THEN Written0(Concat([i \in 1..Len(inputs) |-> inputs[i] \o Newline]),
                Len(inputs))
  ELSE LET chunks == Chunks(inputs, max_args)
       IN Written0(Concat([i \in 1..Len(chunks) |-> WriteChunk(chunks[i])]),
                   Len(chunks))

\* arguments/mod.rs:247-272  the batching loop over the lines of stdin.
RECURSIVE BatchLines(_, _, _)
BatchLines(lines, max_args, st) ==
  IF lines = <<>>
  THEN IF st.max_args_index # max_args
       THEN [st EXCEPT !.disk = @ \o Newline] ELSE st
  ELSE LET line == Head(lines) IN
       BatchLines(Tail(lines), max_args,
         IF st.max_args_index = max_args
         THEN [disk |-> st.disk \o line, n |-> st.n + 1,
               max_args_index |-> st.max_args_index - 1]
         ELSE IF st.max_args_index = 1
         THEN [disk |-> st.disk \o Space \o line \o Newline, n |-> st.n,
               max_args_index |-> max_args]
         ELSE [disk |-> st.disk \o Space \o line, n |-> st.n,
               max_args_index |-> st.max_args_index - 1])

write_stdin_to_disk_unbatched(lines, max_args) ==
  Written0(Concat([i \in 1..Len(lines) |-> lines[i] \o Newline]), Len(lines))

\* arguments/mod.rs:234-276  write_stdin_to_disk
write_stdin_to_disk(lines, max_args) ==
  IF max_args < 2
  THEN Written0(Concat([i \in 1..Len(lines) |-> lines[i] \o Newline]),
                Len(lines))
  ELSE LET st == BatchLines(lines, max_args,
                   [disk |-> <<>>, n |-> 0, max_args_index |-> max_args])
       IN Written0(st.disk, st.n)

\* arguments/mod.rs:76-206  the flags and the command, when there are
\* arguments at all.
ParseFlags ==
  /\ apc = "start"
  /\ IF Len(arguments) > 1
     THEN LET st == ParseCommandLine IN
          /\ parsed' = st
          /\ IF st.res.kind = "running"
             THEN apc' = "inputs" /\ result' = result
             ELSE apc' = "done" /\ result' = st.res
     ELSE apc' = "stdin" /\ UNCHANGED <<parsed, result>>
  /\ UNCHANGED <<mainvars, tokvars, poolvars, arguments, lists, current_inputs, append_list,
                 zips, disk, number_of_arguments, stdin_read>>

\* arguments/mod.rs:209  number_of_arguments = write_inputs_to_disk(..)?
WriteInputsToDisk ==
  /\ apc = "write"
  /\ LET w == write_inputs_to_disk(lists, current_inputs, parsed.max_args)
     IN disk' = disk \o w.disk /\ number_of_arguments' = w.n
  /\ apc' = "stdin"
  /\ UNCHANGED <<mainvars, tokvars, poolvars, arguments, parsed, lists, current_inputs,
                 append_list, zips, stdin_read, result>>

\* disk_buffer.is_empty(): nothing has been written to the buffer.
DiskIsEmpty == disk = <<>>

\* arguments/mod.rs:212-214  standard input is read when the buffer is empty.
WriteStdinToDisk ==
  /\ apc = "stdin"
  /\ DiskIsEmpty
  /\ \E lines \in StdinInputs :
       LET w == write_stdin_to_disk(lines, parsed.max_args)
       IN disk' = disk \o w.disk /\ number_of_arguments' = w.n
  /\ stdin_read' = TRUE
  /\ apc' = "finish"
  /\ UNCHANGED <<mainvars, tokvars, poolvars, arguments, parsed, lists, current_inputs,
                 append_list, zips, result>>

\* arguments/mod.rs:212  the buffer is not empty: standard input is left alone.
SkipStdin ==
  /\ apc = "stdin"
  /\ ~DiskIsEmpty
  /\ apc' = "finish"
  /\ UNCHANGED <<mainvars, tokvars, poolvars, arguments, parsed, lists, current_inputs,
                 append_list, zips, disk, number_of_arguments, stdin_read,
                 result>>

\* arguments/mod.rs:216-230  NoArguments, or the InputIterator.
Finish ==
  /\ apc = "finish"
  /\ result' = IF number_of_arguments = 0 THEN Failed("NoArguments", 0)
               ELSE Res("ok", "-", number_of_arguments)
  /\ apc' = "done"
  /\ UNCHANGED <<mainvars, tokvars, poolvars, arguments, parsed, lists, current_inputs,
                 append_list, zips, disk, number_of_arguments, stdin_read>>

(***************************************************************************)
(* The argument vectors Args::parse is run on.                             *)
(***************************************************************************)
MaxGroups == 3

\* The inputs a group can list: group g lists a prefix of GroupItems[g].
GroupItems ==
  << << <<"a">>, <<"b">> >>, << <<"c">>, <<"d">> >>,
     << <<"e">>, <<"f">> >>, << <<"g">>, <<"h">> >> >>

Separators == {SepInputs, SepInputsAppend, SepFiles, SepFilesAppend}

Groups(g) ==
  LET items == GroupItems[((g - 1) % Len(GroupItems)) + 1]
  IN { <<sep>> \o SubSeq(items, 1, n) : sep \in Separators,
                                        n \in 0..Len(items) }

RECURSIVE GroupVectors(_)
GroupVectors(g) ==
  IF g > MaxGroups THEN { <<>> }
  ELSE { <<>> } \cup { grp \o rest : grp \in Groups(g),
                                     rest \in GroupVectors(g + 1) }

FlagVectors == { <<>>, << <<"-", "n", "2">> >>, << <<"-", "n">>, <<"3">> >> }

CommandVectors == { <<>>, << <<"e">> >>, << <<"e">>, <<"x">> >> }

\* Flags with a value that is not a number, flags that do not exist, an
\* empty argument, and the long flags that take a value.
FlagCases ==
  { << <<"-", "n", "3", "x">> >>,
    << <<"-", "n">>, <<"x">> >>,
    << <<"-", "-", "m", "a", "x", "-", "a", "r", "g", "s">>, <<"x">> >>,
    << <<"-", "-", "m", "a", "x", "-", "a", "r", "g", "s">>, <<"2">> >>,
    << <<"-", "-", "d", "e", "l", "a", "y">>, <<"x">> >>,
    << <<"-", "-", "d", "e", "l", "a", "y">>, <<"1">> >>,
    << <<"-", "-", "t", "i", "m", "e", "o", "u", "t">>, <<"x">> >>,
    << <<"-", "z">> >>,
    << <<"-", "v", "z">> >>,
    << <<"-">> >>,
    << <<"-", "-", "z", "z">> >>,
    << <<>> >>,
    << <<"-", "n", "1">> >> }

\* What follows such a flag: nothing, a command, inputs.
FlagCaseTails ==
  { <<>>,
    << <<"e">> >>,
    << <<"e">>, SepInputs, <<"a">> >>,
    << SepInputs, <<"a">> >>,
    << <<"e">>, SepInputs, <<"a">>, <<"b">>, <<"c">> >> }

FlagCaseVectors ==
  { << <<"p", "a", "r", "a", "l", "l", "e", "l">> >> \o f \o m \o t :
      f \in FlagVectors, m \in FlagCases, t \in FlagCaseTails }

ArgVectors ==
  { << <<"p", "a", "r", "a", "l", "l", "e", "l">> >> \o f \o c \o g :
      f \in FlagVectors, c \in CommandVectors, g \in GroupVectors(1) }
    \cup FlagCaseVectors

\* The worker pool before main has created it.
PoolIdle ==
  /\ InitPool
  /\ ncores = 1
  /\ num_inputs = 1
  /\ ~has_timeout
  /\ needs_shell = {}
  /\ flags = [w \in Slots |-> {}]

InitArgs ==
  /\ PoolIdle
  /\ MainIdle
  /\ TokensIdle
  /\ arguments \in ArgVectors
  /\ apc = "start"
  /\ parsed = ParsedInit("Arguments", 0, {})
  /\ lists = <<>>
  /\ current_inputs = <<>>
  /\ append_list = <<>>
  /\ zips = <<>>
  /\ disk = <<>>
  /\ number_of_arguments = 0
  /\ stdin_read = FALSE
  /\ result = Running0

NextArgs ==
  \/ ParseFlags
  \/ ParseInputsStep
  \/ ParseInputsEnd
  \/ WriteInputsToDisk
  \/ WriteStdinToDisk
  \/ SkipStdin
  \/ Finish

SpecArgs == InitArgs /\ [][NextArgs]_vars

(***************************************************************************)
(* Properties of the materialization (SpecArgs).                           *)
(***************************************************************************)
\* write_inputs_to_disk has returned and standard input has not been read:
\* the disk buffer holds exactly what write_inputs_to_disk wrote.
InputsWritten ==
  /\ apc \in {"stdin", "finish", "done"}
  /\ Len(arguments) > 1
  /\ result.kind \in {"running", "ok"}
  /\ ~stdin_read

\* The lists write_inputs_to_disk works on: `lists` when it holds two or
\* more, and otherwise the single list it is passed as current_inputs.
ListsWritten == IF Len(lists) > 1 THEN lists ELSE <<current_inputs>>

RECURSIVE Product(_)
Product(ls) == IF ls = <<>> THEN 1 ELSE Len(Head(ls)) * Product(Tail(ls))

\* Number of tuples that share one element of list k: the product of the
\* lengths of the lists to its right.
Stride(ls, k) == Product(SubSeq(ls, k + 1, Len(ls)))

\* The r-th tuple (from 0) of the Cartesian product in row-major order.
TupleAt(ls, r) ==
  [k \in 1..Len(ls) |-> ls[k][((r \div Stride(ls, k)) % Len(ls[k])) + 1]]

RECURSIVE JoinSpaces(_)
JoinSpaces(items) ==
  IF Len(items) = 1 THEN items[1]
  ELSE items[1] \o Space \o JoinSpaces(Tail(items))

\* The records the lists stand for, in order.
Records(ls) == [r \in 1..Product(ls) |-> JoinSpaces(TupleAt(ls, r - 1))]

\* The lines of a byte sequence: the pieces between '\n' bytes, a final
\* piece without '\n' included.
RECURSIVE SplitLines(_, _)
SplitLines(bytes, line) ==
  IF bytes = <<>> THEN (IF line = <<>> THEN <<>> ELSE <<line>>)
  ELSE IF Head(bytes) = "\n"
  THEN <<line>> \o SplitLines(Tail(bytes), <<>>)
  ELSE SplitLines(Tail(bytes), Append(line, Head(bytes)))

Ceil(n, d) == (n + d - 1) \div d

Min(a, b) == IF a < b THEN a ELSE b

\* The items batching packs: the permutation outputs, or the elements of the
\* single list.
ItemsWritten ==
  IF Len(lists) > 1 THEN Records(lists) ELSE current_inputs

\* C8: with max_args = M >= 2 the lines written hold the items M at a time,
\* in order, joined by single spaces; only the last line may hold fewer.
C8_PackedPerLine ==
  (InputsWritten /\ parsed.max_args >= 2)
    => LET M == parsed.max_args
           items == ItemsWritten
           lines == SplitLines(disk, <<>>)
       IN /\ Len(lines) = Ceil(Len(items), M)
          /\ \A i \in 1..Len(lines) :
               lines[i] = JoinSpaces(SubSeq(items, (i - 1) * M + 1,
                                            Min(i * M, Len(items))))

C8_Witness ==
  /\ InputsWritten
  /\ parsed.max_args = 2
  /\ Len(lists) = 1
  /\ current_inputs = << <<"a", "1">>, <<"a", "2">>, <<"a", "3">> >>
  /\ SplitLines(disk, <<>>) = << <<"a", "1", " ", "a", "2">>, <<"a", "3">> >>

Zip(base, appended) ==
  [i \in 1..Min(Len(base), Len(appended)) |->
     base[i] \o Space \o appended[i]]

\* C9: every `+` group leaves the list it appends to as the element-wise
\* join of that list and the appended one, cut to the shorter of the two,
\* wherever the group stands and also when it appends nothing.
C9_ZipEverywhere ==
  \A i \in 1..Len(zips) :
    zips[i].result = Zip(zips[i].base, zips[i].appended)

HasSeparator == \E i \in 2..Len(arguments) : arguments[i] \in Separators

\* C10: Args::parse reads standard input exactly when the argument vector
\* holds no separator.
C10_StdinIffNoSeparator ==
  apc = "finish" => (stdin_read <=> ~HasSeparator)

(***************************************************************************)
(* Templates (main.rs): tokenize, the path helpers and cmd_builder.        *)
(***************************************************************************)
\* main.rs:147-156  Token
Character(c) == [t |-> "Character", c |-> c]

Token(t) == [t |-> t, c |-> ""]

match_token_swapped(pattern) ==
  CASE pattern = <<".">> -> Token("RemoveExtension")
    [] pattern = <<"#">> -> Token("Job")
    [] pattern = <<"%">> -> Token("Slot")
    [] pattern = <<"/">> -> Token("Dirname")
    [] pattern = <<"/", "/">> -> Token("Basename")
    [] pattern = <<"/", ".">> -> Token("BaseAndExt")
    [] OTHER -> Token("None")

\* main.rs:190-201  match_token; Token("None") stands for None.
match_token(pattern) ==
  CASE pattern = <<".">> -> Token("RemoveExtension")
    [] pattern = <<"#">> -> Token("Job")
    [] pattern = <<"%">> -> Token("Slot")
    [] pattern = <<"/">> -> Token("Basename")
    [] pattern = <<"/", "/">> -> Token("Dirname")
    [] pattern = <<"/", ".">> -> Token("BaseAndExt")
    [] OTHER -> Token("None")

\* main.rs:163-185  one character of the template.
TokenizeStep(st, character) ==
  IF character = "{" /\ ~st.matching
  THEN [st EXCEPT !.matching = TRUE]
  ELSE IF character = "}" /\ st.matching
  THEN IF st.pattern = <<>>
       THEN [st EXCEPT !.matching = FALSE,
                       !.tokens = Append(@, Token("Placeholder"))]
       ELSE LET token == match_token(st.pattern) IN
            [st EXCEPT
               !.matching = FALSE,
               !.pattern = <<>>,
               !.tokens =
                 IF token.t # "None" THEN Append(@, token)
                 ELSE @ \o <<Character("{")>>
                        \o [i \in 1..Len(st.pattern) |->
                              Character(st.pattern[i])]
                        \o <<Character("}")>>]
  ELSE IF ~st.matching
  THEN [st EXCEPT !.tokens = Append(@, Character(character))]
  ELSE [st EXCEPT !.pattern = Append(@, character)]

RECURSIVE TokenizeFrom(_, _)
TokenizeFrom(st, chars) ==
  IF chars = <<>> THEN st
  ELSE TokenizeFrom(TokenizeStep(st, Head(chars)), Tail(chars))

\* main.rs:158-188  tokenize
tokenize(text) ==
  TokenizeFrom([matching |-> FALSE, tokens |-> <<>>, pattern |-> <<>>],
               text).tokens

\* main.rs:241-244  the index (from 0) of the last `character`, 0 when there
\* is none.
LastIndex(text, character) ==
  LET ids == {id \in 0..(Len(text) - 1) : text[id + 1] = character}
  IN IF ids = {} THEN 0 ELSE CHOOSE id \in ids : \A k \in ids : k <= id

\* main.rs:240-246  remove_extension
remove_extension(text) ==
  LET index == LastIndex(text, ".")
  IN IF index = 0 THEN text ELSE SubSeq(text, 1, index)

\* main.rs:248-254  basename
basename(text) ==
  LET index == LastIndex(text, "/")
  IN IF index = 0 THEN text ELSE SubSeq(text, index + 2, Len(text))

\* main.rs:256-262  dirname
dirname(text) ==
  LET index == LastIndex(text, "/")
  IN IF index = 0 THEN text ELSE SubSeq(text, 1, index)

\* main.rs:209-218  what one token adds to the argument string.
Expand(token, text, slot_id, job_id) ==
  CASE token.t = "Character" -> <<token.c>>
    [] token.t = "Basename" -> text
    [] token.t = "BaseAndExt" -> basename(remove_extension(text))
    [] token.t = "Dirname" -> dirname(text)
    [] token.t = "Job" -> job_id
    [] token.t = "Placeholder" -> text
    [] token.t = "RemoveExtension" -> remove_extension(text)
    [] token.t = "Slot" -> slot_id

\* main.rs:221-225  placeholder_exists
placeholder_exists(toks) ==
  \E i \in 1..Len(toks) : toks[i].t # "Character"

\* str::split_whitespace: the maximal runs of characters other than ' '.
RECURSIVE SplitWhitespace(_, _)
SplitWhitespace(chars, word) ==
  IF chars = <<>> THEN (IF word = <<>> THEN <<>> ELSE <<word>>)
  ELSE IF Head(chars) = " "
  THEN (IF word = <<>> THEN <<>> ELSE <<word>>)
         \o SplitWhitespace(Tail(chars), <<>>)
  ELSE SplitWhitespace(Tail(chars), Append(word, Head(chars)))

\* main.rs:207-231  cmd_builder, up to the arguments it gives the command.
cmd_builder(text, toks, slot_id, job_id) ==
  LET expanded == Concat([i \in 1..Len(toks) |->
                            Expand(toks[i], text, slot_id, job_id)])
      args == IF ~placeholder_exists(toks) THEN expanded \o text
              ELSE expanded
  IN SplitWhitespace(args, <<>>)

(***************************************************************************)
(* main and parse_arguments of main.rs.                                    *)
(***************************************************************************)
\* main.rs:278-308  the loop over the arguments after the program name.
RECURSIVE ParseArgumentsLoop(_)
ParseArgumentsLoop(st) ==
  IF st.res.kind # "running" \/ ~HasArg(st.index) THEN st
  ELSE LET argument == ArgAt(st.index)
           next == st.index + 1
       IN ParseArgumentsLoop(
            IF ~st.parsing_arguments
            THEN [st EXCEPT !.input_variables = Append(@, argument),
                            !.index = next]
            ELSE IF argument = <<"-", "j">>
            THEN IF ~HasArg(next)
                 THEN [st EXCEPT !.res = Failed("JobsNoValue", 0)]
                 ELSE LET val == ParseUsize(ArgAt(next)) IN
                      IF val < 0
                      THEN [st EXCEPT !.res = Failed("JobsNaN", 0)]
                      ELSE [st EXCEPT !.ncores = val, !.index = next + 1]
            ELSE IF argument = SepInputs
            THEN [st EXCEPT !.parsing_arguments = FALSE, !.index = next]
            ELSE [st EXCEPT
                    !.comm = IF st.command_is_set
                             THEN @ \o Space \o argument ELSE @ \o argument,
                    !.command_is_set = TRUE,
                    !.index = next])

\* main.rs:312  comm.chars().position(|x| x == ' '), 0 when there is none
\* (1-based otherwise).
SpacePosition(comm) ==
  LET at == {i \in 1..Len(comm) : comm[i] = " "}
  IN IF at = {} THEN 0 ELSE CHOOSE i \in at : \A k \in at : i <= k

\* main.rs:271-322  parse_arguments, given the value of *ncores.
parse_arguments(cores) ==
  LET st == ParseArgumentsLoop(
              [ncores |-> cores, comm |-> <<>>, command_is_set |-> FALSE,
               parsing_arguments |-> TRUE, input_variables |-> <<>>,
               index |-> 1, res |-> Running0])
      pos == SpacePosition(st.comm)
  IN IF st.res.kind # "running"
     THEN [ncores |-> st.ncores, command |-> <<>>, arg_tokens |-> <<>>,
           input_variables |-> st.input_variables, res |-> st.res]
     ELSE [ncores |-> st.ncores,
           command |-> IF pos = 0 THEN st.comm
                       ELSE SubSeq(st.comm, 1, pos - 1),
           arg_tokens |-> IF pos = 0 THEN <<>>
                          ELSE tokenize(SubSeq(st.comm, pos + 1,
                                               Len(st.comm))),
           input_variables |-> st.input_variables,
           res |-> IF st.input_variables = <<>>
                   THEN Failed("InputVarsNotDefined", 0)
                   ELSE Res("ok", "-", 0)]

ExitsOnErrNever(res) == FALSE

\* main.rs:26,44  if let Err(why) = parse_arguments(..) { .. exit(1) }
ExitsOnErr(res) == res.kind = "err"

\* main.rs:19-57  the arguments are parsed; an error is reported and ends the
\* process, otherwise the run is set up.
MainParse ==
  /\ mpc = "parse"
  /\ LET r == parse_arguments(ncores) IN
     /\ result' = r.res
     /\ ncores' = r.ncores
     /\ command' = r.command
     /\ arg_tokens' = r.arg_tokens
     /\ input_variables' = r.input_variables
     /\ IF ExitsOnErr(r.res)
        THEN /\ stderr' = Append(stderr, Written(0, "parsing error"))
             /\ exit_code' = 1
             /\ mpc' = "exit"
             /\ UNCHANGED num_inputs
        ELSE /\ num_inputs' = Len(r.input_variables)
             /\ mpc' = "spawn"
             /\ UNCHANGED <<stderr, exit_code>>
  /\ UNCHANGED <<tokvars, has_timeout, dash, needs_shell, threads, counter,
                 workervars, childvars, jobvars, chan, events, servars,
                 stdout, arguments, apc, parsed, lists, current_inputs,
                 append_list, zips, disk, number_of_arguments, stdin_read>>

\* main.rs:63-121  one turn of `for slot in 1..ncores+1`.
MainThread == mpc = "spawn" /\ MainSpawn

\* main.rs:63,123  the loop has created its ncores threads.
MainThreadsCreated ==
  /\ mpc = "spawn"
  /\ threads = ncores
  /\ mpc' = "join"
  /\ UNCHANGED <<poolvars, argvars, tokvars, command, arg_tokens,
                 input_variables, exit_code>>

\* main.rs:81-91  the worker takes the next input, or breaks.
MainTake(w) ==
  /\ mpc \in {"spawn", "join"}
  /\ pc[w] = "next"
  /\ counter' = counter + 1
  /\ IF AtEnd(counter)
     THEN /\ pc' = [pc EXCEPT ![w] = "done"]
          /\ UNCHANGED <<job, owner, jobstate, handed>>
     ELSE LET job_id == JobIdOf(counter) IN
          /\ pc' = [pc EXCEPT ![w] = "status"]
          /\ job' = [job EXCEPT ![w] = job_id]
          /\ handed' = Append(handed,
                 [worker |-> w, index |-> counter, job_id |-> job_id])
          /\ owner' = [owner EXCEPT ![job_id] = w]
          /\ jobstate' = [jobstate EXCEPT ![job_id] = "running"]
  /\ UNCHANGED <<mainvars, tokvars, argvars, cfgvars, threads, flags,
                 childvars, jobflags, chan, events, servars, stdout, stderr>>

\* main.rs:93-114  the command is run to its end by Command::status(); a
\* command that cannot be run is reported on stderr.
MainStatus(w) ==
  /\ mpc \in {"spawn", "join"}
  /\ pc[w] = "status"
  /\ \E ok \in BOOLEAN :
       stderr' = IF ok THEN stderr
                 ELSE Append(stderr, Written(job[w], "command error"))
  /\ jobstate' = [jobstate EXCEPT ![job[w]] = "finished"]
  /\ job' = [job EXCEPT ![w] = 0]
  /\ pc' = [pc EXCEPT ![w] = "next"]
  /\ UNCHANGED <<mainvars, tokvars, argvars, cfgvars, threads, counter,
                 flags, childvars, owner, jobflags, handed, chan, events,
                 servars, stdout>>

\* main.rs:123-124  every thread is joined and main returns.
MainJoin ==
  /\ mpc = "join"
  /\ \A w \in Workers : pc[w] = "done"
  /\ mpc' = "exit"
  /\ exit_code' = 0
  /\ UNCHANGED <<poolvars, argvars, tokvars, command, arg_tokens,
                 input_variables>>

\* The argument vectors main is run on: an optional -j with or without a
\* value, an optional command with or without an argument, and an optional
\* `:::` with up to MaxInputs inputs.
JobsVectors ==
  { <<>>, << <<"-", "j">> >> }
    \cup { << <<"-", "j">>, v >> :
             v \in { <<DigitChars[n + 1]>> : n \in 0..MaxCores }
                     \cup { <<"x">> } }

CommandWords == { <<>>, << <<"e">> >>, << <<"e">>, <<"a">> >> }

InputVectors ==
  { <<>> }
    \cup { <<SepInputs>> \o [i \in 1..n |-> <<DigitChars[i + 1]>>] :
             n \in 0..MaxInputs }

MainArgVectors ==
  { << <<"p">> >> \o j \o c \o i :
      j \in JobsVectors, c \in CommandWords, i \in InputVectors }

\* main.rs:17-22  main starts: ncores is num_cpus::get(), nothing is parsed
\* and no thread exists.
InitMain ==
  /\ InitPool
  /\ num_inputs = 1
  /\ ~has_timeout
  /\ needs_shell = {}
  /\ flags = [w \in Slots |-> {}]
  /\ TokensIdle
  /\ arguments \in MainArgVectors
  /\ apc = "off"
  /\ parsed = <<>>
  /\ lists = <<>>
  /\ current_inputs = <<>>
  /\ append_list = <<>>
  /\ zips = <<>>
  /\ disk = <<>>
  /\ number_of_arguments = 0
  /\ stdin_read = FALSE
  /\ result = Running0
  /\ mpc = "parse"
  /\ command = <<>>
  /\ arg_tokens = <<>>
  /\ input_variables = <<>>
  /\ exit_code = -1

NextMain ==
  \/ MainParse
  \/ MainThread
  \/ MainThreadsCreated
  \/ \E w \in Workers : MainTake(w)
  \/ \E w \in Workers : MainStatus(w)
  \/ MainJoin

SpecMain == InitMain /\ [][NextMain]_vars

\* C11: once the arguments are parsed without error ncores is at least 1,
\* whatever value -j was given, and when main returns every input has been
\* run.
C11_AtLeastOneWorker ==
  (mpc \in {"spawn", "join", "exit"} /\ result.kind = "ok")
    => /\ ncores >= 1
       /\ mpc = "exit" => \A j \in 1..num_inputs : jobstate[j] = "finished"

CommandLineParsed ==
  /\ apc \in {"inputs", "write", "stdin", "finish", "done"}
  /\ Len(arguments) > 1
  /\ parsed.res.kind = "running"

\* The flags whose value is the argument after them.
ValueFlags ==
  { <<"-", "n">>, <<"-", "j">>,
    <<"-", "-", "j", "o", "b", "s">>,
    <<"-", "-", "m", "a", "x", "-", "a", "r", "g", "s">>,
    <<"-", "-", "d", "e", "l", "a", "y">>,
    <<"-", "-", "t", "i", "m", "e", "o", "u", "t">> }

\* The index of the first argument that is not a flag or a flag's value.
RECURSIVE FirstNonFlag(_)
FirstNonFlag(i) ==
  IF ~HasArg(i) \/ ArgAt(i) = <<>> \/ ArgAt(i)[1] # "-" THEN i
  ELSE IF ArgAt(i) \in ValueFlags THEN FirstNonFlag(i + 2)
  ELSE FirstNonFlag(i + 1)

\* The index of the first separator at or after i, or of the end.
RECURSIVE FirstSeparatorFrom(_)
FirstSeparatorFrom(i) ==
  IF ~HasArg(i) \/ ArgAt(i) \in Separators THEN i
  ELSE FirstSeparatorFrom(i + 1)

\* The template the arguments spell: the first non-flag argument and those
\* after it up to the first separator, joined by single spaces.
TemplateGiven(p) ==
  JoinSpaces([k \in 1..(FirstSeparatorFrom(p + 1) - p) |-> ArgAt(p + k - 1)])

\* C13 as stated: the inputs-are-commands flag is set exactly when `:::` or
\* `::::` is the first argument, and a template given as the first non-flag
\* argument leaves it clear and is that argument and the following ones up
\* to the first separator, joined by single spaces.
C13_FlagIffFirstArgument ==
  CommandLineParsed
    => LET p == FirstNonFlag(1) IN
       /\ INPUTS_ARE_COMMANDS \in parsed.flags
            <=> ArgAt(1) \in {SepInputs, SepFiles}
       /\ (HasArg(p) /\ ArgAt(p) \notin {SepInputs, SepFiles})
            => /\ INPUTS_ARE_COMMANDS \notin parsed.flags
               /\ parsed.comm = TemplateGiven(p)

\* C13, amended: the inputs-are-commands flag is set exactly when `:::` or
\* `::::` is the first non-flag argument, flags before it or not; a template
\* given as the first non-flag argument leaves it clear and is that argument
\* and the following ones up to the first separator, joined by single spaces.
C13_FlagIffFirstNonFlagArgument ==
  CommandLineParsed
    => LET p == FirstNonFlag(1) IN
       /\ INPUTS_ARE_COMMANDS \in parsed.flags
            <=> (HasArg(p) /\ ArgAt(p) \in {SepInputs, SepFiles})
       /\ (HasArg(p) /\ ArgAt(p) \notin {SepInputs, SepFiles})
            => /\ INPUTS_ARE_COMMANDS \notin parsed.flags
               /\ parsed.comm = TemplateGiven(p)

\* A two-word template after a flag and its value has been collected.
C13_Witness ==
  /\ CommandLineParsed
  /\ FirstNonFlag(1) = 3
  /\ parsed.comm = <<"e", " ", "x">>
  /\ INPUTS_ARE_COMMANDS \notin parsed.flags
  /\ HasSeparator

(***************************************************************************)
(* The expansion of one input (SpecTokens): the template is tokenized      *)
(* (main.rs:315) and cmd_builder builds the arguments (main.rs:108).       *)
(***************************************************************************)
MaxPieces == 3

MaxInputChars == 3

\* The brace groups of the table of match_token, and `{}`.
KnownGroups ==
  { <<"{", "}">>, <<"{", ".", "}">>, <<"{", "#", "}">>, <<"{", "%", "}">>,
    <<"{", "/", "}">>, <<"{", "/", "/", "}">>, <<"{", "/", ".", "}">> }

\* What a template is made of: the known groups and single characters, the
\* braces among them.
Pieces == KnownGroups \cup { <<"a">>, <<" ">>, <<"{">>, <<"}">> }

RECURSIVE Texts(_, _)
Texts(pieces, n) ==
  IF n = 0 THEN { <<>> }
  ELSE { <<>> } \cup { p \o rest : p \in pieces, rest \in Texts(pieces, n - 1) }

Templates == Texts(Pieces, MaxPieces)

InputTexts == Texts({ <<"a">>, <<".">>, <<"/">> }, MaxInputChars)

\* main.rs:107  the slot and the job id as text.
SlotText == <<"1">>

JobText == <<"2">>

InitTokens ==
  /\ PoolIdle
  /\ ArgsIdle
  /\ MainIdle
  /\ tpc = "tokenize"
  /\ template \in Templates
  /\ input = <<>>
  /\ tokens = <<>>
  /\ built = <<>>

\* main.rs:315  *arg_tokens = tokenize(..)
Tokenize ==
  /\ tpc = "tokenize"
  /\ tokens' = tokenize(template)
  /\ tpc' = "build"
  /\ UNCHANGED <<poolvars, argvars, mainvars, template, input, built>>

\* main.rs:108  cmd_builder(input_var, &command, &argument_tokens, ..)
CmdBuilder ==
  /\ tpc = "build"
  /\ \E text \in InputTexts :
       /\ input' = text
       /\ built' = cmd_builder(text, tokens, SlotText, JobText)
  /\ tpc' = "done"
  /\ UNCHANGED <<poolvars, argvars, mainvars, template, tokens>>

NextTokens == Tokenize \/ CmdBuilder

SpecTokens == InitTokens /\ [][NextTokens]_vars

IsPrefix(p, text) == Len(p) <= Len(text) /\ SubSeq(text, 1, Len(p)) = p

\* The known group a text starts with, <<>> when it starts with none.
GroupAt(text) ==
  IF \E g \in KnownGroups : IsPrefix(g, text)
  THEN CHOOSE g \in KnownGroups : IsPrefix(g, text)
  ELSE <<>>

Drop(text, n) == SubSeq(text, n + 1, Len(text))

\* Every '{' of the text opens one of the known groups.
RECURSIVE GroupsAllKnown(_)
GroupsAllKnown(text) ==
  IF text = <<>> THEN TRUE
  ELSE IF Head(text) # "{" THEN GroupsAllKnown(Tail(text))
  ELSE GroupAt(text) # <<>> /\ GroupsAllKnown(Drop(text, Len(GroupAt(text))))

\* The token the table names for a known group.
TableToken(g) ==
  CASE g = <<"{", "}">> -> Token("Placeholder")
    [] g = <<"{", ".", "}">> -> Token("RemoveExtension")
    [] g = <<"{", "#", "}">> -> Token("Job")
    [] g = <<"{", "%", "}">> -> Token("Slot")
    [] g = <<"{", "/", "}">> -> Token("Basename")
    [] g = <<"{", "/", "/", "}">> -> Token("Dirname")
    [] g = <<"{", "/", ".", "}">> -> Token("BaseAndExt")

\* The tokens of a text whose groups are all known: one per group, one per
\* other character.
RECURSIVE TableTokens(_)
TableTokens(text) ==
  IF text = <<>> THEN <<>>
  ELSE IF Head(text) # "{" THEN <<Character(Head(text))>> \o TableTokens(Tail(text))
  ELSE <<TableToken(GroupAt(text))>>
         \o TableTokens(Drop(text, Len(GroupAt(text))))

\* A token as text: its brace pattern, or its character.
EmitToken(token) ==
  IF token.t = "Character" THEN <<token.c>>
  ELSE CHOOSE g \in KnownGroups : TableToken(g) = token

Emit(toks) == Concat([i \in 1..Len(toks) |-> EmitToken(toks[i])])

\* C14: for a template whose brace groups are all in the table, the tokens
\* written back as text give the template, and each group is the token the
\* table names.
C14_TokenizeRoundTrip ==
  (tpc # "tokenize" /\ GroupsAllKnown(template))
    => /\ Emit(tokens) = template
       /\ tokens = TableTokens(template)

C14_Witness ==
  /\ tpc = "build"
  /\ template = <<"{", "/", "/", "}", " ", "{", "/", ".", "}">>
  /\ tokens = <<Token("Dirname"), Character(" "), Token("BaseAndExt")>>

\* The index (from 1) of the last `character` of a text, 0 when it has none.
LastOf(text, character) ==
  LET at == {i \in 1..Len(text) : text[i] = character}
  IN IF at = {} THEN 0 ELSE CHOOSE i \in at : \A k \in at : k <= i

\* The text before its last `character`; the text itself when it has none.
Before(text, character) ==
  IF LastOf(text, character) = 0 THEN text
  ELSE SubSeq(text, 1, LastOf(text, character) - 1)

\* The text after its last `character`; the text itself when it has none.
After(text, character) ==
  IF LastOf(text, character) = 0 THEN text
  ELSE SubSeq(text, LastOf(text, character) + 1, Len(text))

\* What a token stands for: {/} the input after its last '/', {/.} that of
\* the input before its last '.', and for the other tokens what cmd_builder
\* substitutes.
Derivative(token, text) ==
  CASE token.t = "Basename" -> After(text, "/")
    [] token.t = "BaseAndExt" -> After(Before(text, "."), "/")
    [] OTHER -> Expand(token, text, SlotText, JobText)

HasToken(toks, t) == \E i \in 1..Len(toks) : toks[i].t = t

\* C15: in the arguments cmd_builder builds, {/} stands for the input with
\* everything up to and including its last '/' removed and {/.} for that
\* basename taken of the input without its extension.
C15_BasenameSubstituted ==
  (tpc = "done" /\ (HasToken(tokens, "Basename")
                      \/ HasToken(tokens, "BaseAndExt")))
    => built = SplitWhitespace(
                 Concat([i \in 1..Len(tokens) |-> Derivative(tokens[i], input)]),
                 <<>>)

\* C16: remove_extension gives the input before its last '.', dirname the
\* input before its last '/', and either gives the input back only when it
\* holds no such character.
C16_PrefixBeforeLastSeparator ==
  /\ (tpc = "done" /\ tokens = <<Token("RemoveExtension")>>)
       => built = SplitWhitespace(Before(input, "."), <<>>)
  /\ (tpc = "done" /\ tokens = <<Token("Dirname")>>)
       => built = SplitWhitespace(Before(input, "/"), <<>>)

\* C17: a template without substitution token gets the input as a further
\* argument after its own; a template with one does not.
C17_InputAppended ==
  (tpc = "done" /\ Emit(tokens) = template)
    => built = IF placeholder_exists(tokens)
               THEN SplitWhitespace(
                      Concat([i \in 1..Len(tokens) |->
                                Expand(tokens[i], input, SlotText, JobText)]),
                      <<>>)
               ELSE SplitWhitespace(template, <<>>)
                      \o SplitWhitespace(input, <<>>)

\* The number of '\n' bytes, that is of newline-terminated records.
NewlineCount(bytes) == Cardinality({i \in 1..Len(bytes) : bytes[i] = "\n"})

\* C18: when Args::parse succeeds, the queue holds as many newline-terminated
\* records as the count it passes to InputIterator.
C18_RecordsNewlineTerminated ==
  (apc = "done" /\ result.kind = "ok")
    => NewlineCount(disk) = number_of_arguments

(***************************************************************************)
(* Spawn failures (Spec).                                                  *)
(***************************************************************************)
\* The job was taken and left without a child: get_command_output failed.
SpawnFailed(j) == jobstate[j] = "finished" /\ child[j] = "none"

\* C19: a job whose spawn failed has exactly one event, an Error; its worker
\* goes on with the loop, and the run still hands out and ends every job.
C19_SpawnErrorEvent ==
  /\ \A j \in 1..num_inputs :
       SpawnFailed(j) => /\ events[j] = <<"Error">>
                         /\ pc[owner[j]] # "spawn" \/ job[owner[j]] # j
  /\ (threads = ncores /\ \A w \in Workers : pc[w] = "done")
       => \A j \in 1..num_inputs :
            /\ jobstate[j] = "finished"
            /\ Cardinality(TerminatingAt(j)) = 1

\* One worker failed to spawn job 1, went on to job 2 and completed it.
C19_Witness ==
  /\ RunComplete
  /\ num_inputs = 2
  /\ SpawnFailed(1)
  /\ events[1] = <<"Error">>
  /\ owner[2] = owner[1]
  /\ ~SpawnFailed(2)
  /\ events[2][Len(events[2])] = "Completed"

\* C20: everything on stderr is a block written by the serializer: a worker
\* writes nothing there itself, so a failure appears once, in job order.
C20_StderrOnlyThroughSerializer ==
  /\ \A i \in 1..Len(stderr) : stderr[i].kind = "block"
  /\ \A j \in 1..num_inputs :
       Cardinality({i \in 1..Len(stderr) : stderr[i].job = j}) <= 1
         \/ ~SpawnFailed(j)

(***************************************************************************)
(* Timeouts and kills (Spec).                                              *)
(***************************************************************************)
\* The number of Start events sent for a job: pipe_output sends one when it
\* is called.
PipeOutputCalls(j) ==
  Cardinality({i \in 1..Len(events[j]) : events[j][i] = "Start"})

\* The child of job j is killed in this step.
KillSent(j) == child[j] # "killed" /\ child'[j] = "killed"

\* The worker of job j leaves the timed wait in this step.
TimedWaitEnds(j) ==
  /\ owner[j] # 0
  /\ job[owner[j]] = j
  /\ pc[owner[j]] = "wait_timeout"
  /\ pc'[owner[j]] # "wait_timeout"

C21_State ==
  \A j \in 1..num_inputs :
    /\ PipeOutputCalls(j) <= 1
    /\ (jobstate[j] = "finished" /\ child[j] # "none")
         => /\ PipeOutputCalls(j) = 1
            /\ events[j][Len(events[j])] = "Completed"
    /\ child[j] = "none" => PipeOutputCalls(j) = 0
    /\ child[j] = "killed" => has_timeout /\ PipeOutputCalls(j) = 1
    /\ ~has_timeout => child[j] # "killed"

C21_Step ==
  \A j \in 1..num_inputs :
    /\ KillSent(j) => /\ has_timeout
                      /\ TimedWaitEnds(j)
                      /\ child[j] = "running"
                      /\ events[j] = <<>>
                      /\ events'[j] = <<"Start">>
    /\ TimedWaitEnds(j) => (child[j] = "running" <=> KillSent(j))
    /\ (TimedWaitEnds(j) /\ child[j] = "exited") => child'[j] # "killed"

\* C21: pipe_output is called exactly once for every spawned child; a child
\* is killed exactly when there is a timeout and the timed wait ended with
\* the child still running, the kill comes before the drain and the drain
\* still ends with Completed; without a timeout, or when the child exited in
\* time, the child is never killed.
C21_KillIffTimedOut == []C21_State /\ [][C21_Step]_vars

\* A child was killed on timeout with output left in its pipe, and its job
\* was then drained to Completed.
C21_Witness ==
  /\ \E j \in 1..num_inputs :
       /\ child[j] = "killed"
       /\ jobstate[j] = "finished"
       /\ events[j] = <<"Start", "Chunk", "Completed">>

(***************************************************************************)
(* Shell flags of a job (Spec).                                            *)
(***************************************************************************)
\* get_command_output has been called for job j, with jobflags[j].
CommandRequested(j) == child[j] # "none" \/ jobstate[j] = "finished"

\* C22: the shell flags a job is run with are those of its own input: it has
\* SHELL_ENABLED exactly when its input requires a shell, and DASH_EXISTS
\* exactly when it does and dash exists (no run of the model starts with
\* either flag set), whatever the same worker processed before.
C22_ShellFlagsPerJob ==
  \A j \in 1..num_inputs :
    CommandRequested(j) =>
      /\ SHELL_ENABLED \in jobflags[j] <=> j \in needs_shell
      /\ DASH_EXISTS \in jobflags[j] <=> (j \in needs_shell /\ dash)

(***************************************************************************)
(* The index an argument error carries (SpecArgs).                         *)
(***************************************************************************)
LongNames ==
  { <<"d", "e", "l", "a", "y">>, <<"d", "r", "y", "-", "r", "u", "n">>,
    <<"h", "e", "l", "p">>, <<"j", "o", "b", "s">>,
    <<"n", "u", "m", "-", "c", "p", "u", "-", "c", "o", "r", "e", "s">>,
    <<"m", "a", "x", "-", "a", "r", "g", "s">>, <<"p", "i", "p", "e">>,
    <<"q", "u", "i", "e", "t">>, <<"s", "i", "l", "e", "n", "t">>,
    <<"q", "u", "o", "t", "e">>,
    <<"s", "h", "e", "l", "l", "q", "u", "o", "t", "e">>,
    <<"t", "i", "m", "e", "o", "u", "t">>, <<"v", "e", "r", "b", "o", "s", "e">>,
    <<"v", "e", "r", "s", "i", "o", "n">> }

\* A flag the program does not have: a lone '-', a short group with a letter
\* that is none of h p q s v, or a long name that is not one of LongNames.
UnrecognizedFlag(a) ==
  /\ a # <<>>
  /\ a[1] = "-"
  /\ \/ Len(a) = 1
     \/ /\ Len(a) >= 2
        /\ a[2] \notin {"j", "n", "-"}
        /\ \E k \in 2..Len(a) : a[k] \notin {"h", "p", "q", "s", "v"}
     \/ /\ Len(a) >= 2
        /\ a[2] = "-"
        /\ SubSeq(a, 3, Len(a)) \notin LongNames

\* arguments[i] is a max_args value that is not a number: the attached form
\* -n<value>, or the argument after -n or --max-args.
BadMaxArgsAt(i) ==
  LET a == ArgAt(i) IN
  \/ /\ Len(a) > 2
     /\ SubSeq(a, 1, 2) = <<"-", "n">>
     /\ ParseUsize(SubSeq(a, 3, Len(a))) < 0
  \/ /\ i >= 2
     /\ ArgAt(i - 1) \in { <<"-", "n">>,
                           <<"-", "-", "m", "a", "x", "-", "a", "r", "g", "s">> }
     /\ ParseUsize(a) < 0

\* arguments[i] is the value of --delay or --timeout and is not a number.
BadDelayAt(i) ==
  /\ i >= 2
  /\ ArgAt(i - 1) \in { <<"-", "-", "d", "e", "l", "a", "y">>,
                        <<"-", "-", "t", "i", "m", "e", "o", "u", "t">> }
  /\ ParseSeconds(ArgAt(i)) < 0

IndexedErrors == {"InvalidArgument", "DelayNaN", "MaxArgsNaN"}

\* C23: whenever Args::parse returns InvalidArgument(i), DelayNaN(i) or
\* MaxArgsNaN(i), arguments[i] exists and is the unrecognized flag or the
\* value that is not a number, for -n3x, -n x and the long forms alike.
C23_ErrorIndexIsOffendingToken ==
  (apc = "done" /\ result.kind = "err" /\ result.err \in IndexedErrors)
    => /\ result.at >= 1
       /\ HasArg(result.at)
       /\ CASE result.err = "InvalidArgument" ->
                 UnrecognizedFlag(ArgAt(result.at))
            [] result.err = "MaxArgsNaN" -> BadMaxArgsAt(result.at)
            [] result.err = "DelayNaN" -> BadDelayAt(result.at)

(***************************************************************************)
(* A template that ends inside a brace group (SpecTokens).                 *)
(***************************************************************************)
\* The positions of the '{' that no '}' follows.
UnclosedBraces(text) ==
  { i \in 1..Len(text) :
      text[i] = "{" /\ \A k \in (i + 1)..Len(text) : text[k] # "}" }

\* The first of them: every '{' before it is followed by a '}' before it, so
\* this is the '{' the template ends inside.
UnclosedAt(text) ==
  CHOOSE i \in UnclosedBraces(text) : \A k \in UnclosedBraces(text) : i <= k

Literal(text) == [k \in 1..Len(text) |-> Character(text[k])]

\* C24: when the template ends inside an unclosed '{', the tokens are those
\* of the text before that '{' followed by one literal-character token for
\* the '{' and for each character after it: no character is lost.
C24_UnclosedBraceLiteral ==
  (tpc # "tokenize" /\ UnclosedBraces(template) # {})
    => LET i == UnclosedAt(template) IN
       tokens = tokenize(SubSeq(template, 1, i - 1))
                  \o Literal(SubSeq(template, i, Len(template)))

(***************************************************************************)
(* Termination of a run (SpecLive): the pool under fair scheduling.        *)
(***************************************************************************)
\* Every step one worker thread can take.
WorkerStep(w) ==
  \/ AttemptNext(w)
  \/ SpawnOk(w)
  \/ SpawnErr(w)
  \/ WaitTimeoutSome(w)
  \/ WaitTimeoutNone(w)
  \/ PipeChunk(w)
  \/ PipeEOF(w)
  \/ Wait(w)

\* Every step one child process can take.
ChildStep(j) == ChildWrite(j) \/ ChildExit(j)

\* Threads and processes are scheduled: the main thread, each worker, each
\* child and the serializer go on whenever they can.  A worker's send never
\* blocks in the code (the channel is unbounded), so a worker held up only
\* by the model's bound on the channel is scheduled once there is room.
Fairness ==
  /\ WF_vars(MainSpawn)
  /\ WF_vars(Receive)
  /\ \A w \in Slots : SF_vars(w \in Workers /\ WorkerStep(w))
  /\ \A j \in JobDom : WF_vars(ChildStep(j))

SpecLive == Init /\ [][Next]_vars /\ Fairness

\* main's join of all the workers has returned.
Joined == threads = ncores /\ \A w \in Workers : pc[w] = "done"

\* The worker is waiting on its child or draining it.
OnChild(w) == w \in Workers /\ pc[w] \in {"wait_timeout", "drain", "wait"}

\* A worker leaves its loop only from the top of the loop, on the end of the
\* input, and at the end of the input it does leave.
C25_ExitStep ==
  \A w \in Workers :
    /\ (pc[w] # "done" /\ pc'[w] = "done") => (pc[w] = "next" /\ AtEnd(counter))
    /\ (pc[w] = "next" /\ pc'[w] # "next" /\ AtEnd(counter)) => pc'[w] = "done"

\* C25: under fair scheduling every run ends: a worker that waits on its
\* child or drains it is back at the top of its loop later on, a worker
\* leaves its loop exactly on the end of the shared input, and in the end
\* all workers have left and stay so (main's join returns).
C25_RunTerminates ==
  /\ \A w \in Slots : OnChild(w) ~> (pc[w] = "next")
  /\ [][C25_ExitStep]_vars
  /\ <>[]Joined

\* Two workers, two jobs and a timeout: one child filled its pipe and was
\* killed on the timeout, the other wrote nothing and was waited on, and
\* both workers have left their loops.
C25_Witness ==
  /\ RunComplete
  /\ ncores = 2
  /\ num_inputs = 2
  /\ has_timeout
  /\ child[1] = "killed"
  /\ events[1] = <<"Start", "Chunk", "Completed">>
  /\ child[2] = "reaped"
  /\ owner[1] # owner[2]

(***************************************************************************)
(* Panics of Args::parse (SpecArgs).                                       *)
(***************************************************************************)
InputModes == {"Inputs", "InputsAppend", "Files", "FilesAppend"}

\* parse_inputs is about to consume an argument that is not a separator.
ConsumesInput ==
  /\ apc = "inputs"
  /\ HasArg(parsed.index)
  /\ ArgAt(parsed.index) \notin Separators

\* C26: whenever parse_inputs consumes an argument that is not a separator
\* the mode is Inputs, InputsAppend, Files or FilesAppend, so the
\* unreachable!() arm (mode Arguments or Command) is never taken.
C26_UnreachableNeverReached ==
  /\ ConsumesInput => parsed.mode \in InputModes
  /\ apc = "inputs" /\ parsed.mode \notin InputModes => ~HasArg(parsed.index)
  /\ ~(result.kind = "panic" /\ result.err = "unreachable")

\* After flags and a two-word command, parse_inputs is consuming the inputs
\* of a `+` group.
C26_Witness ==
  /\ ConsumesInput
  /\ parsed.mode = "InputsAppend"
  /\ parsed.comm = <<"e", " ", "x">>
  /\ parsed.max_args = 2
  /\ current_inputs # <<>>

\* C27: the flag loop never takes the first character of an empty argument:
\* Args::parse does not panic on char_iter.next().unwrap(), whatever the
\* argument vector, an empty argument before the command included.
C27_FirstCharacterExists ==
  ~(apc = "done" /\ result.kind = "panic" /\ result.err = "unwrap")

(***************************************************************************)
(* Standard input and a single list (SpecArgs).                            *)
(***************************************************************************)
\* write_inputs_to_disk has written a single list.
SingleListWritten == InputsWritten /\ Len(lists) <= 1 /\ current_inputs # <<>>

\* write_stdin_to_disk has written the lines of standard input, and nothing
\* was written before it.
StdinWritten == stdin_read /\ apc \in {"finish", "done"}

\* C28: for the same items and the same max_args, write_stdin_to_disk and
\* write_inputs_to_disk on a single list write the same bytes and return the
\* same count: what was written for a single list is what standard input
\* with those items would give, and what was written for standard input is
\* what a single list of its lines would give.
C28_StdinAsSingleList ==
  /\ SingleListWritten
       => LET w == write_stdin_to_disk(current_inputs, parsed.max_args)
          IN disk = w.disk /\ number_of_arguments = w.n
  /\ StdinWritten
       => \E lines \in StdinInputs :
            LET w == write_inputs_to_disk(<<lines>>, lines, parsed.max_args)
                v == write_stdin_to_disk(lines, parsed.max_args)
            IN /\ disk = w.disk
               /\ number_of_arguments = w.n
               /\ w = v

\* A single list of three items written with max_args 2: the last line is
\* short.
C28_Witness ==
  /\ SingleListWritten
  /\ parsed.max_args = 2
  /\ current_inputs = << <<"a">>, <<"b">>, <<"c">> >>
  /\ disk = <<"a", " ", "b", "\n", "c", "\n">>
  /\ number_of_arguments = 2

====
